---------------------------- MODULE Spec2Model ----------------------------
(***************************************************************************)
(* A model of macclean's scanning engine (src/src/macclean/core/cleaner.py)*)
(* and of the scan worker that drives it (gui/main_window.py).             *)
(*                                                                         *)
(* Strings (paths, path fragments) are sequences of one-character strings, *)
(* so that dirname, join, startswith and the substring test "x in s" are   *)
(* computed as Python computes them.                                       *)
(***************************************************************************)
EXTENDS Integers, Sequences, FiniteSets, TLC

(***************************************************************************)
(* Bounds of the model.                                                    *)
(***************************************************************************)
\* Largest byte length of a regular file in the duplicate-scan file systems.
MaxLen == 2
\* Threads of a ThreadPoolExecutor (self.max_workers).
MaxWorkers == 2

\* The byte values a file's content is filled with.
Fills == {1, 2}

(***************************************************************************)
(* String helpers.                                                         *)
(***************************************************************************)
\* s.startswith(pre)
StartsWith(s, pre) ==
    /\ Len(pre) <= Len(s)
    /\ SubSeq(s, 1, Len(pre)) = pre

\* frag in s
Contains(s, frag) ==
    \E i \in 1..(Len(s) - Len(frag) + 1) : SubSeq(s, i, i + Len(frag) - 1) = frag

\* p.rfind('/') + 1 : the index of the last slash of p, 0 when it has none
LastSlash(p) ==
    IF \E i \in 1..Len(p) : p[i] = "/"
    THEN CHOOSE i \in 1..Len(p) : p[i] = "/" /\ \A j \in (i+1)..Len(p) : p[j] # "/"
    ELSE 0

\* s.rstrip('/')
RECURSIVE RStripSlash(_)
RStripSlash(s) ==
    IF s # <<>> /\ s[Len(s)] = "/" THEN RStripSlash(SubSeq(s, 1, Len(s) - 1)) ELSE s

\* os.path.dirname (posixpath): the head up to the last slash, without its
\* trailing slashes unless it is made of slashes only.
Dirname(p) ==
    LET head == SubSeq(p, 1, LastSlash(p))
    IN  IF head # <<>> /\ (\E i \in 1..Len(head) : head[i] # "/")
        THEN RStripSlash(head)
        ELSE head

\* Path.name : the last component
Basename(p) == SubSeq(p, LastSlash(p) + 1, Len(p))

\* os.path.join(a, b) (posixpath)
Join(a, b) ==
    IF b # <<>> /\ b[1] = "/" THEN b
    ELSE IF a = <<>> \/ a[Len(a)] = "/" THEN a \o b
    ELSE a \o <<"/">> \o b

(***************************************************************************)
(* Paths of the modelled file systems.                                     *)
(***************************************************************************)
RootDir == <<"/", "r">>
SubDir == <<"/", "r", "/", "s", "u", "b">>
SubGitDir == <<"/", "r", "/", "s", "u", "b", "/", ".", "g", "i", "t">>
GitDir == <<"/", "r", "/", ".", "g", "i", "t">>
FileA == <<"/", "r", "/", "a">>
FileE == <<"/", "r", "/", "e">>
FileB == <<"/", "r", "/", "s", "u", "b", "/", "b">>
FileC == <<"/", "r", "/", "s", "u", "b", "/", ".", "g", "i", "t", "/", "c">>
FileD == <<"/", "r", "/", ".", "g", "i", "t", "/", "d">>
LinkL == <<"/", "r", "/", "l">>
SysFile == <<"/", "S", "y", "s", "t", "e", "m", "/", "x">>
LibSysFile == <<"/", "L", "i", "b", "r", "a", "r", "y", "/", "S", "y", "s", "t", "e", "m", "/", "x">>
UsrLibFile == <<"/", "u", "s", "r", "/", "l", "i", "b", "/", "x">>
HomeFile == <<"/", "h", "o", "m", "e", "/", "x">>

\* The directories that exist (all searchable and writable).
Dirs == {RootDir, SubDir, SubGitDir, GitDir,
         Dirname(SysFile), Dirname(LibSysFile), Dirname(UsrLibFile), Dirname(HomeFile)}

\* Relative link targets.
TargetA == <<"a">>
TargetSub == <<"s", "u", "b">>
TargetGone == <<"z", "z">>
TargetT == <<"t">>

(***************************************************************************)
(* The file system: a function from the paths of its entries to entries.   *)
(* A regular file's content is `size' bytes of value `fill'.  An entry with*)
(* statfail set makes os.stat / os.lstat raise OSError (it vanished, or    *)
(* permission was withdrawn, after the existence test).  A link's writable *)
(* is the mode of the link itself, which os.access never looks at.  An     *)
(* entry named through a symbolic link to a directory has that link as its *)
(* mount.                                                                  *)
(***************************************************************************)
Absent ==
    [kind |-> "absent", size |-> 0, fill |-> 0, readable |-> FALSE,
     writable |-> FALSE, statfail |-> FALSE, target |-> <<>>, mtime |-> 0,
     inode |-> 0, mount |-> <<>>]

RegularFile(size, fill, readable, writable, statfail, inode) ==
    [kind |-> "file", size |-> size, fill |-> fill, readable |-> readable,
     writable |-> writable, statfail |-> statfail, target |-> <<>>, mtime |-> 1,
     inode |-> inode, mount |-> <<>>]

SymLink(target, writable, statfail, inode) ==
    [kind |-> "link", size |-> Len(target), fill |-> 0, readable |-> TRUE,
     writable |-> writable, statfail |-> statfail, target |-> target, mtime |-> 1,
     inode |-> inode, mount |-> <<>>]

\* A directory whose mode is not the default: readable is the permission to
\* list it, writable the permission to remove entries from it.  A directory
\* of Dirs that has no entry of its own can be listed and written.
Directory(listable, writable) ==
    [kind |-> "dir", size |-> 0, fill |-> 0, readable |-> listable,
     writable |-> writable, statfail |-> FALSE, target |-> <<>>, mtime |-> 1,
     inode |-> 0, mount |-> <<>>]

\* the entry a path names, without following a final symbolic link
Entry(f, p) == IF p \in DOMAIN f THEN f[p] ELSE Absent

\* os.path.islink
IsLink(f, p) == Entry(f, p).kind = "link"

\* os.readlink joined to the link's directory, as _is_removable does
Dest(f, p) == Join(Dirname(p), Entry(f, p).target)

\* the entry reached after following a final symbolic link
Followed(f, p) == IF IsLink(f, p) THEN Entry(f, Dest(f, p)) ELSE Entry(f, p)

\* os.path.exists / Path.is_dir / Path.is_file : all follow symbolic links
IsDir(f, p) == p \in Dirs \/ (IsLink(f, p) /\ Dest(f, p) \in Dirs)

IsFile(f, p) == Followed(f, p).kind = "file"

Exists(f, p) == IsDir(f, p) \/ IsFile(f, p)

\* os.access(path, os.W_OK) : follows symbolic links
WritableFile(e) == e.kind = "file" /\ e.writable

AccessW(f, p) == IsDir(f, p) \/ WritableFile(Followed(f, p))

\* os.lstat / os.stat : [ok |-> FALSE] stands for a raised OSError
StatOf(e) ==
    IF e.kind = "absent" \/ e.statfail
    THEN [ok |-> FALSE, st_size |-> 0, st_mtime |-> 0, st_ino |-> 0]
    ELSE [ok |-> TRUE, st_size |-> e.size, st_mtime |-> e.mtime, st_ino |-> e.inode]

Lstat(f, p) == StatOf(Entry(f, p))

Stat(f, p) == IF Entry(f, p).statfail THEN StatOf(Entry(f, p)) ELSE StatOf(Followed(f, p))

(***************************************************************************)
(* FileInfo (cleaner.py).  hash_md5 is {} for None and {d} for a digest d. *)
(***************************************************************************)

\* the tuple of prefixes of FileInfo._is_removable
SystemPrefixes ==
    {<<"/", "S", "y", "s", "t", "e", "m">>,
     <<"/", "L", "i", "b", "r", "a", "r", "y", "/", "S", "y", "s", "t", "e", "m">>,
     <<"/", "u", "s", "r", "/", "l", "i", "b">>}

\* line 98: os.path.dirname(self.path).startswith((...))
InSystemDir(p) == \E pre \in SystemPrefixes : StartsWith(Dirname(p), pre)

\* FileInfo._is_removable with a broken link accepted (the wrong answer in
\* the broken-link branch).
IsRemovableBrokenLinkOk(f, p) ==
    IF IsLink(f, p) /\ ~Exists(f, Dest(f, p)) THEN TRUE
    ELSE IF ~AccessW(f, p) THEN FALSE
    ELSE IF InSystemDir(p) THEN FALSE
    ELSE TRUE

\* FileInfo._is_removable
IsRemovable(f, p) ==
    IF IsLink(f, p) /\ ~Exists(f, Dest(f, p)) THEN FALSE
    ELSE IF ~AccessW(f, p) THEN FALSE
    ELSE IF InSystemDir(p) THEN FALSE
    ELSE TRUE

\* FileInfo._get_file_type.  The media type guessed from the extension is
\* not modelled: none of the modelled names has one, so the result is "file".
GetFileType(f, p) == IF IsLink(f, p) THEN "symlink" ELSE "file"

\* The dataclass fields right after the generated __init__, before
\* __post_init__ runs.
FileInfoFields(p, size) ==
    [path |-> p, size |-> size, hash_md5 |-> {}, modified_time |-> 0,
     inode |-> 0, file_type |-> "file", is_removable |-> TRUE]

\* lines 42-45 and 51-54: the fields taken from a stat result; nothing is
\* assigned when the call raised
WithStat(self, st) ==
    IF st.ok
    THEN [self EXCEPT !.size = st.st_size, !.modified_time = st.st_mtime,
                      !.inode = st.st_ino]
    ELSE self

\* __post_init__ zeroing the size of a record whose path names nothing
PostInitZeroing(self, islink, exists, lst, st, ftype, removable) ==
    IF islink
    THEN WithStat([self EXCEPT !.file_type = "symlink", !.is_removable = removable], lst)
    ELSE IF exists /\ st.ok
    THEN [WithStat(self, st) EXCEPT !.file_type = ftype, !.is_removable = removable]
    ELSE [self EXCEPT !.size = 0]

\* FileInfo.__post_init__, given what the system calls answer
PostInit(self, islink, exists, lst, st, ftype, removable) ==
    IF islink
    THEN WithStat([self EXCEPT !.file_type = "symlink", !.is_removable = removable], lst)
    ELSE IF exists /\ st.ok
    THEN [WithStat(self, st) EXCEPT !.file_type = ftype, !.is_removable = removable]
    ELSE self

\* FileInfo(path, size): __init__ followed by __post_init__
FileInfo(f, p, size) ==
    PostInit(FileInfoFields(p, size), IsLink(f, p), Exists(f, p), Lstat(f, p),
             Stat(f, p), GetFileType(f, p), IsRemovable(f, p))

(***************************************************************************)
(* Directory listing.                                                      *)
(***************************************************************************)
\* FileB and FileC named through LinkL, when it links to SubDir
LinkedB == <<"/", "r", "/", "l", "/", "b">>
LinkedC == <<"/", "r", "/", "l", "/", ".", "g", "i", "t", "/", "c">>

\* The file system with the entries that LinkL, when it links to SubDir,
\* gives a second name.
Mounted(f) ==
    IF Entry(f, LinkL).kind = "link" /\ Entry(f, LinkL).target = TargetSub
    THEN f @@ (LinkedB :> [Entry(f, FileB) EXCEPT !.mount = LinkL])
           @@ (LinkedC :> [Entry(f, FileC) EXCEPT !.mount = LinkL])
    ELSE f

\* The entries of a file system in the order a directory walk meets them.
\* os.scandir's order is whatever the file system gives; the model fixes one.
SlotOrder == <<FileA, FileE, LinkL, LinkedB, LinkedC, FileB, FileC, FileD>>

Present(f, p) == Entry(f, p).kind # "absent"

\* os.scandir(dd) raises PermissionError for a directory that cannot be
\* listed; rglob swallows it and yields nothing from below dd
Listable(f, dd) == Entry(f, dd).kind # "dir" \/ Entry(f, dd).readable

\* every directory from d down to q's own can be listed
Reachable(f, d, q) ==
    \A dd \in Dirs :
        (StartsWith(dd \o <<"/">>, d \o <<"/">>) /\ StartsWith(q, dd \o <<"/">>))
            => Listable(f, dd)

\* rglob giving up the whole walk when a directory below d cannot be listed
RGlobStopsAtError(f, d) ==
    LET IsBelow(q) ==
            /\ Present(f, q)
            /\ StartsWith(q, d \o <<"/">>)
            /\ Entry(f, q).mount \in {<<>>, d}
            /\ \A dd \in Dirs : StartsWith(dd \o <<"/">>, d \o <<"/">>) => Listable(f, dd)
    IN  SelectSeq(SlotOrder, IsBelow)

\* Path.rglob('*') below d, entries only: every entry below d, at any depth.
\* rglob does not recurse into a symbolic link to a directory, so an entry
\* named through such a link is met only when d is that link.
RGlob(f, d) ==
    LET IsBelow(q) ==
            /\ Present(f, q)
            /\ StartsWith(q, d \o <<"/">>)
            /\ Entry(f, q).mount \in {<<>>, d}
            /\ Reachable(f, d, q)
    IN  SelectSeq(SlotOrder, IsBelow)

\* Path.iterdir() of d: its immediate children
IterDir(f, d) ==
    {q \in Dirs : Dirname(q) = d}
    \cup {q \in DOMAIN f : Present(f, q) /\ Entry(f, q).mount = <<>> /\ Dirname(q) = d}

\* All orders in which a set of paths can be listed.
Orderings(S) ==
    {o \in [1..Cardinality(S) -> S] : \A i, j \in 1..Cardinality(S) : i # j => o[i] # o[j]}

(***************************************************************************)
(* MD5.  The digest is a fold over the bytes (injective on the modelled    *)
(* contents); hexdigest() is the one-symbol string <<h>>, "" is <<>>.      *)
(***************************************************************************)
Content(e) == [i \in 1..e.size |-> e.fill]

RECURSIVE Md5Update(_, _)
Md5Update(h, bytes) ==
    IF bytes = <<>> THEN h
    ELSE Md5Update((h * 31 + Head(bytes)) % 65521, Tail(bytes))

RECURSIVE Md5Chunks(_, _, _, _)
Md5Chunks(h, mm, i, chunk) ==
    IF i > Len(mm) THEN h
    ELSE LET last == IF i + chunk - 1 < Len(mm) THEN i + chunk - 1 ELSE Len(mm)
         IN  Md5Chunks(Md5Update(h, SubSeq(mm, i, last)), mm, last + 1, chunk)

\* M1OptimizedDuplicateFinder.chunk_size
ChunkSize(apple) == IF apple THEN 1024 * 1024 ELSE 64 * 1024

\* lines 135-149, for an opened regular file: one read below 64 KB, else
\* chunks of the mapped file
Md5OfFile(e, apple) ==
    IF e.size < 64 * 1024 THEN <<Md5Update(7, Content(e))>>
    ELSE <<Md5Chunks(7, Content(e), 1, ChunkSize(apple))>>

\* calculate_md5_optimized returning the digest of what was read before the
\* read failed
Md5OfEntryPartial(e, apple) ==
    IF e.kind # "file" THEN <<>>
    ELSE IF ~e.readable THEN <<Md5Update(7, <<>>)>>
    ELSE Md5OfFile(e, apple)

\* what calculate_md5_optimized returns for the entry open() reaches:
\* open() raises OSError for a missing, unreadable or directory target, and
\* the result is then ""
Md5OfEntry(e, apple) ==
    IF e.kind # "file" \/ ~e.readable THEN <<>> ELSE Md5OfFile(e, apple)

\* calculate_md5_optimized; open() follows symbolic links
CalculateMd5(f, p, apple) == Md5OfEntry(Followed(f, p), apple)

(***************************************************************************)
(* Ordered grouping (a Python dict keeps its keys in insertion order).     *)
(***************************************************************************)
RECURSIVE SortedSeq(_)
SortedSeq(S) ==
    IF S = {} THEN <<>>
    ELSE LET m == CHOOSE x \in S : \A y \in S : x <= y
         IN  <<m>> \o SortedSeq(S \ {m})

\* The members of idxs grouped by keyOf, groups in the order their key first
\* appears, members in their order in idxs.
GroupOrdered(idxs, keyOf) ==
    LET first == {i \in 1..Len(idxs) :
                     \A j \in 1..(i - 1) : keyOf[idxs[j]] # keyOf[idxs[i]]}
        firsts == SortedSeq(first)
    IN  [k \in 1..Len(firsts) |->
            LET SameKey(x) == keyOf[x] = keyOf[idxs[firsts[k]]]
            IN  SelectSeq(idxs, SameKey)]

\* the number of groups, not of their members
CountGroups(gs) == Len(gs)

\* sum(len(group) for group in candidate_groups)
RECURSIVE SumLen(_)
SumLen(gs) == IF gs = <<>> THEN 0 ELSE Len(Head(gs)) + SumLen(Tail(gs))

Range(s) == {s[i] : i \in 1..Len(s)}


(***************************************************************************)
(* State.                                                                  *)
(***************************************************************************)
VARIABLES
    fs,                \* the file system
    is_apple_silicon,  \* platform.machine() in ('arm64', 'aarch64')
    scan_type,         \* ScanWorker.scan_type; "none" when no scan is modelled
    min_size_bytes,    \* M1OptimizedLargeFilesFinder.min_size_bytes
    pc,                \* position of the thread that runs the scan
    units,             \* a pool's futures: traversal units (future_to_dir)
    all_files,         \* all_files / all_large_files: the FileInfo objects
    files_by_size,     \* self.files_by_size, as buckets of indices of all_files
    candidate_groups,  \* candidate_groups, as lists of indices of all_files
    gi,                \* index of the candidate group being processed
    tasks,             \* a pool's futures: hash tasks (future_to_path)
    hash_results,      \* the results dict of calculate_md5_batch or
                       \* safe_delete_files_batch
    processed,         \* processed
    total_candidates,  \* total_candidates
    duplicates,        \* self.duplicates, as lists of indices of all_files
    progress_calls,    \* the (current, total) the engine passed to its callback
    should_stop,       \* ScanWorker.should_stop
    emitted,           \* the progress signals ScanWorker emitted
    arg,               \* FileInfo construction: the arguments
    info,              \* FileInfo construction: the object built
    directory,         \* the directory argument of a scan
    result,            \* what a call returned to its caller
    current_thread,    \* MacCleanApp.current_thread: None or the QThread's state
    current_tab,       \* self.tabs.currentIndex()
    tables,            \* the four FileTableWidget: what populate_table was given
    message,           \* the text start_scan, scan_finished, scan_error or
                       \* closeEvent showed last
    deleted,           \* the last delete_selected_files: the final reply and the
                       \* records whose path it gave to safe_delete_file
    scans              \* the number of scan threads start_scan has started

vars ==
    <<fs, is_apple_silicon, scan_type, min_size_bytes, pc, units, all_files,
      files_by_size, candidate_groups, gi, tasks, hash_results, processed,
      total_candidates, duplicates, progress_calls, should_stop, emitted, arg, info,
      directory, result, current_thread, current_tab, tables, message, deleted,
      scans>>

envVars == <<fs, is_apple_silicon, scan_type, min_size_bytes, directory>>
hashVars == <<candidate_groups, gi, tasks, hash_results, processed, total_candidates>>
buildVars ==
    <<arg, info, result, current_thread, current_tab, tables, message, deleted,
      scans>>

(***************************************************************************)
(* The thread pool (concurrent.futures.ThreadPoolExecutor).  Futures start *)
(* in submission order, at most max_workers at a time, and finish in any   *)
(* order.                                                                  *)
(***************************************************************************)
Running(futs) == {i \in 1..Len(futs) : futs[i].status = "running"}

\* the future a free worker thread takes from the work queue
NextQueued(futs) ==
    {i \in 1..Len(futs) :
        /\ futs[i].status = "queued"
        /\ \A j \in 1..(i - 1) : futs[j].status # "queued"}

CanStart(futs) == Cardinality(Running(futs)) < MaxWorkers

\* leaving the "with" block without waiting for the pool's futures
AllDrainedNoWait(futs) == Len(futs) >= 0

\* the "with ThreadPoolExecutor" block is left: every future was handed over
\* by as_completed
AllDrained(futs) == \A i \in 1..Len(futs) : futs[i].status = "drained"

(***************************************************************************)
(* The progress callbacks of ScanWorker.                                   *)
(***************************************************************************)
\* ScanWorker._progress_callback and its three siblings: the signals emitted
\* after the engine called back with (current, total).
ProgressCallback(stop, sofar, current, total) ==
    IF ~stop THEN Append(sofar, <<current, total>>) ELSE sofar

(***************************************************************************)
(* M1OptimizedDuplicateFinder.scan_directory_optimized                     *)
(***************************************************************************)
\* lines 192-194: a FileInfo for every path that is_file() accepts
FileInfos(f, paths) ==
    LET IsRegular(q) == IsFile(f, q)
    IN  [i \in 1..Len(SelectSeq(paths, IsRegular)) |->
            FileInfo(f, SelectSeq(paths, IsRegular)[i], 0)]

\* line 195: the records whose size is not 0
NonEmpty(files) ==
    LET Sized(rec) == rec.size > 0 IN SelectSeq(files, Sized)

\* collect_files_worker with the size filter left out
CollectEveryFile(f, d) == FileInfos(f, RGlob(f, d))

\* collect_files_worker(root_path)
CollectFilesWorker(f, d) == NonEmpty(FileInfos(f, RGlob(f, d)))

\* the traversal units: only the immediate subdirectories, without the root
SubdirsOnly(f, root, order) == order

\* subdirs: the root, then its immediate non-hidden subdirectories in the
\* order iterdir gave them
Subdirs(f, root, order) == <<root>> \o order

\* the immediate subdirectories iterdir() yields that become units
UnitDirs(f, root) ==
    {q \in IterDir(f, root) : IsDir(f, q) /\ ~StartsWith(Basename(q), <<".">>)}

Queued(dirs) ==
    [i \in 1..Len(dirs) |-> [dir |-> dirs[i], status |-> "queued", files |-> <<>>]]

\* lines 178-217: clear the finder, list the root, submit one unit per
\* directory
DupStart ==
    /\ scan_type = "duplicates"
    /\ pc = "idle"
    /\ \E order \in Orderings(UnitDirs(fs, directory)) :
           units' = Queued(Subdirs(fs, directory, order))
    /\ files_by_size' = <<>>
    /\ duplicates' = <<>>
    /\ all_files' = <<>>
    /\ pc' = "collect"
    /\ UNCHANGED <<envVars, hashVars, progress_calls, should_stop, emitted, buildVars>>

\* a worker thread of the pool takes the next unit
UnitStart ==
    /\ pc = "collect"
    /\ CanStart(units)
    /\ \E i \in NextQueued(units) :
           units' = [units EXCEPT ![i].status = "running"]
    /\ UNCHANGED <<envVars, pc, all_files, files_by_size, hashVars, duplicates,
                   progress_calls, should_stop, emitted, buildVars>>

\* A running unit ends: collect_files_worker returns its own list, and
\* lines 219-228 run for it: as_completed hands the future over, its files
\* are added to all_files and the callback runs every 1000 files.
DupUnitDone ==
    /\ scan_type = "duplicates"
    /\ pc = "collect"
    /\ \E i \in Running(units) :
           /\ units' = [units EXCEPT ![i].status = "drained",
                                     ![i].files = CollectFilesWorker(fs, units[i].dir)]
           /\ all_files' = all_files \o units'[i].files
    /\ IF Len(all_files') % 1000 = 0
       THEN /\ progress_calls' = Append(progress_calls, <<Len(all_files'), 0>>)
            /\ emitted' = ProgressCallback(should_stop, emitted, Len(all_files'), 0)
       ELSE UNCHANGED <<progress_calls, emitted>>
    /\ UNCHANGED <<envVars, pc, files_by_size, hashVars, duplicates, should_stop,
                   buildVars>>

\* files_by_size after the loop of lines 233-237
BySize(files) ==
    GroupOrdered([i \in 1..Len(files) |-> i], [i \in 1..Len(files) |-> files[i].size])

\* line 240: the buckets with more than one member
CandidateGroups(buckets) ==
    LET Many(b) == Len(b) > 1 IN SelectSeq(buckets, Many)

\* lines 230-245: the pool is shut down, the files are bucketed by size and
\* the candidate groups chosen
DupBucket ==
    /\ scan_type = "duplicates"
    /\ pc = "collect"
    /\ AllDrained(units)
    /\ files_by_size' = BySize(all_files)
    /\ candidate_groups' = CandidateGroups(files_by_size')
    /\ total_candidates' = SumLen(candidate_groups')
    /\ processed' = 0
    /\ gi' = 1
    /\ pc' = IF candidate_groups' = <<>> THEN "done" ELSE "batch"
    /\ UNCHANGED <<envVars, units, all_files, tasks, hash_results, duplicates,
                   progress_calls, should_stop, emitted, buildVars>>


\* an empty dict
EmptyDict == [x \in {} |-> <<>>]

\* d[k] = v
DictSet(d, k, v) == (k :> v) @@ d

\* "if file_info.hash_md5": neither None nor the empty string
HasDigest(rec) == rec.hash_md5 # {} /\ rec.hash_md5 # {<<>>}

\* lines 248-249: calculate_md5_batch submits one hash task per member
DupBatchSubmit ==
    /\ scan_type = "duplicates"
    /\ pc = "batch"
    /\ LET group == candidate_groups[gi]
       IN  tasks' = [i \in 1..Len(group) |->
                        [path |-> all_files[group[i]].path, status |-> "queued",
                         result |-> <<>>]]
    /\ hash_results' = EmptyDict
    /\ pc' = "hashing"
    /\ UNCHANGED <<envVars, units, all_files, files_by_size, candidate_groups, gi,
                   processed, total_candidates, duplicates, progress_calls,
                   should_stop, emitted, buildVars>>

\* a worker thread of the pool takes the next hash task, or the next
\* deletion of safe_delete_files_batch
HashStart ==
    /\ pc \in {"hashing", "deleting"}
    /\ CanStart(tasks)
    /\ \E i \in NextQueued(tasks) :
           tasks' = [tasks EXCEPT ![i].status = "running"]
    /\ UNCHANGED <<envVars, pc, units, all_files, files_by_size, candidate_groups, gi,
                   hash_results, processed, total_candidates, duplicates,
                   progress_calls, should_stop, emitted, buildVars>>

\* A running hash task ends: calculate_md5_optimized returns, and lines
\* 165-172 run for it: as_completed hands the future over and a non-empty
\* digest is stored under the task's path.
HashDone ==
    /\ pc = "hashing"
    /\ \E i \in Running(tasks) :
           /\ tasks' = [tasks EXCEPT
                           ![i].status = "drained",
                           ![i].result = CalculateMd5(fs, tasks[i].path, is_apple_silicon)]
           /\ hash_results' = IF tasks'[i].result # <<>>
                              THEN DictSet(hash_results, tasks[i].path, tasks'[i].result)
                              ELSE hash_results
    /\ UNCHANGED <<envVars, pc, units, all_files, files_by_size, candidate_groups, gi,
                   processed, total_candidates, duplicates, progress_calls,
                   should_stop, emitted, buildVars>>

\* lines 252-254: the digests are assigned to the members of the group
AssignHashes(files, group, results) ==
    [i \in 1..Len(files) |->
        IF i \in Range(group) /\ files[i].path \in DOMAIN results
        THEN [files[i] EXCEPT !.hash_md5 = {results[files[i].path]}]
        ELSE files[i]]

\* files_by_hash with the "if file_info.hash_md5" test left out
ByHashUnchecked(files, group) ==
    GroupOrdered(group, [i \in 1..Len(files) |-> files[i].hash_md5])

\* lines 257-263: files_by_hash, the members that have a digest, by digest
ByHash(files, group) ==
    LET Hashed(i) == HasDigest(files[i])
    IN  GroupOrdered(SelectSeq(group, Hashed),
                     [i \in 1..Len(files) |-> files[i].hash_md5])

\* lines 266-268: the groups with more than one member
DuplicateGroups(byHash) ==
    LET Many(g) == Len(g) > 1 IN SelectSeq(byHash, Many)

\* lines 251-272: the batch is over; hashes are assigned, the group is split
\* by digest, duplicate groups are appended and the callback runs
DupBatchEnd ==
    /\ scan_type = "duplicates"
    /\ pc = "hashing"
    /\ AllDrained(tasks)
    /\ all_files' = AssignHashes(all_files, candidate_groups[gi], hash_results)
    /\ duplicates' = duplicates
                       \o DuplicateGroups(ByHash(all_files', candidate_groups[gi]))
    /\ processed' = processed + Len(candidate_groups[gi])
    /\ progress_calls' = Append(progress_calls, <<processed', total_candidates>>)
    /\ emitted' = ProgressCallback(should_stop, emitted, processed', total_candidates)
    /\ gi' = gi + 1
    /\ pc' = IF gi = Len(candidate_groups) THEN "done" ELSE "batch"
    /\ UNCHANGED <<envVars, units, files_by_size, candidate_groups, tasks,
                   hash_results, total_candidates, should_stop, buildVars>>

(***************************************************************************)
(* ScanWorker.stop, called from the GUI thread while the scan runs.        *)
(***************************************************************************)
Stop ==
    /\ pc \notin {"idle", "done"}
    /\ ~should_stop
    /\ should_stop' = TRUE
    /\ UNCHANGED <<envVars, pc, units, all_files, files_by_size, hashVars, duplicates,
                   progress_calls, emitted, buildVars>>

(***************************************************************************)
(* The file systems a duplicate scan is run on: regular files of 0..MaxLen *)
(* bytes at the top level, in a subdirectory and in a hidden directory, at *)
(* most one of them unreadable (its bytes are never read, so one fill      *)
(* stands for all), and one symbolic link at the top level, to a file, to  *)
(* a directory or to nothing.                                              *)
(***************************************************************************)
FileChoices(inode) ==
    {Absent}
    \cup {RegularFile(0, 0, TRUE, TRUE, FALSE, inode)}
    \cup {RegularFile(n, b, TRUE, TRUE, FALSE, inode) : n \in 1..MaxLen, b \in Fills}
    \cup {RegularFile(n, 1, FALSE, TRUE, FALSE, inode) : n \in 1..MaxLen}

HiddenChoices(inode) ==
    {Absent} \cup {RegularFile(1, b, TRUE, TRUE, FALSE, inode) : b \in Fills}

LinkChoices(inode) ==
    {Absent} \cup {SymLink(t, TRUE, FALSE, inode) : t \in {TargetA, TargetSub, TargetGone}}

Unreadable(f) == {p \in DOMAIN f : f[p].kind = "file" /\ ~f[p].readable}

DupFileSystems ==
    {f \in {Mounted((FileA :> a) @@ (FileE :> e) @@ (FileB :> b) @@ (FileD :> d)
                         @@ (LinkL :> l)) :
                a \in FileChoices(1), e \in FileChoices(2), b \in FileChoices(3),
                d \in HiddenChoices(4), l \in LinkChoices(5)} :
        Cardinality(Unreadable(f)) <= 1}

NoArg == [path |-> <<>>, size |-> 0]

NoInfo == FileInfoFields(<<>>, 0)

\* safe_delete_file has not been called
NoResult == "none"

InitIdle ==
    /\ pc = "idle"
    /\ units = <<>>
    /\ all_files = <<>>
    /\ files_by_size = <<>>
    /\ candidate_groups = <<>>
    /\ gi = 0
    /\ tasks = <<>>
    /\ hash_results = EmptyDict
    /\ processed = 0
    /\ total_candidates = 0
    /\ duplicates = <<>>
    /\ progress_calls = <<>>
    /\ should_stop = FALSE
    /\ emitted = <<>>
    /\ current_thread = "None"
    /\ current_tab = 0
    /\ tables = [t \in 0..3 |-> [scan |-> "", files |-> <<>>]]
    /\ message = ""
    /\ deleted = [reply |-> "", files |-> <<>>]
    /\ scans = 0

\* DuplicateFinder().scan_directory(root, callback) called directly
Init ==
    /\ fs \in DupFileSystems
    /\ is_apple_silicon = FALSE
    /\ scan_type = "duplicates"
    /\ min_size_bytes = 0
    /\ InitIdle
    /\ arg = NoArg
    /\ info = NoInfo
    /\ directory = RootDir
    /\ result = NoResult

DupNext ==
    \/ DupStart
    \/ UnitStart
    \/ DupUnitDone
    \/ DupBucket
    \/ DupBatchSubmit
    \/ HashStart
    \/ HashDone
    \/ DupBatchEnd

Next == DupNext

Spec == Init /\ [][Next]_vars


(***************************************************************************)
(* The scan run by a ScanWorker, whose stop() the GUI thread may call at   *)
(* any moment of the scan.                                                 *)
(***************************************************************************)
WorkerNext == DupNext \/ Stop

SpecWorker == Init /\ [][WorkerNext]_vars

(***************************************************************************)
(* Properties of the duplicate scan.                                       *)
(***************************************************************************)
\* the digest of the whole content of a regular file
WholeDigest(e) == <<Md5Update(7, Content(e))>>

\* the records of a path
RecordsOf(p) == {i \in 1..Len(all_files) : all_files[i].path = p}

\* the paths of the records of a group
GroupPaths(g) == {all_files[g[k]].path : k \in 1..Len(g)}

\* the non-empty regular files of the file system, each under its own name
NonEmptyFiles ==
    {p \in DOMAIN fs : fs[p].kind = "file" /\ fs[p].size > 0 /\ fs[p].mount = <<>>}

\* two distinct non-empty readable regular files with the same bytes
Identical(p, q) ==
    /\ p # q
    /\ p \in NonEmptyFiles /\ q \in NonEmptyFiles
    /\ fs[p].readable /\ fs[q].readable
    /\ Content(fs[p]) = Content(fs[q])

\* C1: when scan_directory has returned, any two distinct non-empty readable
\* regular files under the root that have the same bytes are together in
\* exactly one of the returned groups, wherever under the root they lie.
C1_IdenticalFilesShareOneGroup ==
    pc = "done" =>
        \A p, q \in DOMAIN fs :
            Identical(p, q) =>
                Cardinality({k \in 1..Len(duplicates) :
                                {p, q} \subseteq GroupPaths(duplicates[k])}) = 1

\* C1 witness: a scan returned with a top-level file and a file of a
\* subdirectory that have the same bytes, in one group.
C1_Witness ==
    /\ pc = "done"
    /\ Identical(FileA, FileB)
    /\ \E k \in 1..Len(duplicates) : {FileA, FileB} \subseteq GroupPaths(duplicates[k])

\* C2: every group has at least two records, all with the same recorded
\* size and the same non-empty digest; its records name the same bytes, and
\* none of them is a record whose hashing failed.
C2_GroupsAgreeOnSizeAndDigest ==
    \A k \in 1..Len(duplicates) :
        LET g == duplicates[k]
        IN  /\ Len(g) >= 2
            /\ \A i, j \in Range(g) :
                   /\ all_files[i].size = all_files[j].size
                   /\ all_files[i].hash_md5 = all_files[j].hash_md5
                   /\ Content(Followed(fs, all_files[i].path))
                        = Content(Followed(fs, all_files[j].path))
            /\ \A i \in Range(g) :
                   /\ HasDigest(all_files[i])
                   /\ CalculateMd5(fs, all_files[i].path, is_apple_silicon) # <<>>

\* C2 witness: a scan returned a group while a record of the same size, in
\* the same bucket, could not be hashed and has no digest.
C2_Witness ==
    /\ pc = "done"
    /\ \E k \in 1..Len(duplicates), i \in 1..Len(all_files) :
           /\ all_files[i].size = all_files[duplicates[k][1]].size
           /\ CalculateMd5(fs, all_files[i].path, is_apple_silicon) = <<>>
           /\ all_files[i].hash_md5 = {}

\* C3 (as claimed): once the units are aggregated, all_files holds exactly
\* one record for each non-empty regular file under the root and no other.
C3_OneRecordPerFile ==
    pc \notin {"idle", "collect"} =>
        /\ \A p \in NonEmptyFiles :
               Cardinality({i \in 1..Len(all_files) : all_files[i].path = p}) = 1
        /\ \A i \in 1..Len(all_files) : all_files[i].path \in NonEmptyFiles

\* C3 witness: the units are aggregated and the one file of a subdirectory
\* has two records, one from the root unit and one from the subdirectory's.
C3_Witness ==
    /\ pc = "done"
    /\ FileB \in NonEmptyFiles
    /\ Cardinality({i \in 1..Len(all_files) : all_files[i].path = FileB}) = 2

\* C7: no record of size 0 is ever collected, bucketed or grouped, and no
\* group names a zero-byte regular file.
C7_NoZeroByteFileInGroups ==
    /\ \A i \in 1..Len(all_files) : all_files[i].size > 0
    /\ \A b \in 1..Len(files_by_size) :
           \A i \in Range(files_by_size[b]) : all_files[i].size > 0
    /\ \A k \in 1..Len(duplicates) :
           \A p \in GroupPaths(duplicates[k]) :
               ~(Entry(fs, p).kind = "file" /\ Entry(fs, p).size = 0)

\* C7 witness: a scan returned a group although two zero-byte files lie
\* under the root.
C7_Witness ==
    /\ pc = "done"
    /\ fs[FileA].kind = "file" /\ fs[FileA].size = 0
    /\ fs[FileB].kind = "file" /\ fs[FileB].size = 0
    /\ duplicates # <<>>

\* C10 (as claimed): once should_stop is set, no queued traversal unit and
\* no hash computation is started any more.
C10_NoNewWorkAfterStop ==
    [][should_stop => ~(UnitStart \/ HashStart \/ DupBatchSubmit)]_vars

\* the invocations of the callback that belong to the hash phase
HashPhaseCalls == {i \in 1..Len(progress_calls) : progress_calls[i][2] > 0}

\* C14: every callback invocation with total = 0 comes before every one
\* with total > 0; in those with total > 0, total is the number of candidate
\* records, current is at most total and strictly increases, and the last
\* one made by a finished scan has current = total.
C14_ProgressPhasesInOrder ==
    /\ \A i, j \in 1..Len(progress_calls) :
           (progress_calls[i][2] = 0 /\ progress_calls[j][2] > 0) => i < j
    /\ \A i \in 1..Len(progress_calls) : progress_calls[i][2] >= 0
    /\ \A i \in HashPhaseCalls :
           /\ progress_calls[i][2] = total_candidates
           /\ progress_calls[i][2] = SumLen(candidate_groups)
           /\ progress_calls[i][1] <= progress_calls[i][2]
    /\ \A i, j \in HashPhaseCalls :
           i < j => progress_calls[i][1] < progress_calls[j][1]
    /\ (pc = "done" /\ HashPhaseCalls # {}) =>
           progress_calls[Len(progress_calls)] = <<total_candidates, total_candidates>>

\* C14 witness: a finished scan called back in the walk phase and then
\* twice in the hash phase, once per candidate group.
C14_Witness ==
    /\ pc = "done"
    /\ \E i \in 1..Len(progress_calls) : progress_calls[i][2] = 0
    /\ Cardinality(HashPhaseCalls) = 2
    /\ Len(candidate_groups) = 2

\* C15 (as claimed): no symbolic link is descended into, and a symbolic link
\* under the root, whatever it points to, has exactly one record, of type
\* symlink and with the size of the link itself.
C15_LinksEmittedNotFollowed ==
    pc \notin {"idle", "collect"} =>
        /\ \A u \in 1..Len(units) : ~IsLink(fs, units[u].dir)
        /\ \A i \in 1..Len(all_files) : Entry(fs, all_files[i].path).mount = <<>>
        /\ IsLink(fs, LinkL) =>
               /\ Cardinality(RecordsOf(LinkL)) = 1
               /\ \A i \in RecordsOf(LinkL) :
                      /\ all_files[i].file_type = "symlink"
                      /\ all_files[i].size = Lstat(fs, LinkL).st_size

\* C15 witness: the scan returned, a broken symbolic link lies under the
\* root, and no record was made for it.
C15_Witness ==
    /\ pc = "done"
    /\ IsLink(fs, LinkL)
    /\ ~Exists(fs, Dest(fs, LinkL))
    /\ RecordsOf(LinkL) = {}

\* no other entry under the root, of any kind and under any name, has the
\* size of the entry p
UniqueSize(p) ==
    \A q \in DOMAIN fs \ {p} : Present(fs, q) => fs[q].size # fs[p].size

\* C19 (as claimed): a regular file whose size differs from that of every
\* other file under the root is never handed to a hash task.
C19_UniqueSizeNeverHashed ==
    \A p \in NonEmptyFiles :
        UniqueSize(p) => \A i \in 1..Len(tasks) : tasks[i].path # p

\* C19 witness: the scan returned after reading and hashing the file of the
\* subdirectory, the only entry of its size under the root.
C19_Witness ==
    /\ pc = "done"
    /\ FileB \in NonEmptyFiles
    /\ UniqueSize(FileB)
    /\ \E i \in 1..Len(tasks) :
           /\ tasks[i].path = FileB
           /\ tasks[i].status = "drained"
           /\ tasks[i].result # <<>>

\* C20: a record's hash_md5, once set, never changes, and whenever it is
\* set it is the digest of the whole content of the record's file, which
\* could be read to its end; a file whose read fails leaves it None.
C20_DigestSetOnceFromWholeRead ==
    /\ [](\A i \in 1..Len(all_files) :
             IF Followed(fs, all_files[i].path).kind = "file"
                /\ Followed(fs, all_files[i].path).readable
             THEN all_files[i].hash_md5
                    \in {{}, {WholeDigest(Followed(fs, all_files[i].path))}}
             ELSE all_files[i].hash_md5 = {})
    /\ [][\A i \in 1..Len(all_files) :
              all_files[i].hash_md5 # {} =>
                  /\ i <= Len(all_files')
                  /\ all_files'[i].hash_md5 = all_files[i].hash_md5]_vars

\* C20 witness: the second batch is being hashed; the records of the first
\* candidate group were handled, one has its digest and one, whose file
\* cannot be read, has none.
C20_Witness ==
    /\ pc = "hashing"
    /\ gi = 2
    /\ \E i, j \in Range(candidate_groups[1]) :
           /\ all_files[i].hash_md5 = {WholeDigest(Followed(fs, all_files[i].path))}
           /\ ~Followed(fs, all_files[j].path).readable
           /\ all_files[j].hash_md5 = {}


\* C21: during a scan the accumulated record list, the size buckets and the
\* duplicates list are written only by the thread that drains completed
\* futures.  A step in which a worker thread takes a unit or a hash task
\* changes none of them; the record list grows by exactly the list one
\* finished unit returned; the buckets and the duplicates list are written
\* only while no worker of either pool is running; a finished future's
\* result is written to that future alone.
C21_OnlyTheDrainingThreadWrites ==
    [][/\ (\E i \in 1..Len(units) :
              i \in DOMAIN units' /\ units[i].status = "queued"
                                  /\ units'[i].status = "running")
          => UNCHANGED <<all_files, files_by_size, duplicates, hash_results>>
       /\ (\E i \in 1..Len(tasks) :
              i \in DOMAIN tasks' /\ tasks[i].status = "queued"
                                  /\ tasks'[i].status = "running")
          => UNCHANGED <<all_files, files_by_size, duplicates, hash_results>>
       /\ (pc = "collect" /\ all_files' # all_files)
          => \E i \in Running(units) :
                 /\ units' = [units EXCEPT ![i].status = "drained",
                                           ![i].files = units'[i].files]
                 /\ all_files' = all_files \o units'[i].files
       /\ (pc # "idle" /\ files_by_size' # files_by_size)
          => Running(units) = {} /\ Running(tasks) = {} /\ NextQueued(units) = {}
       /\ (pc # "idle" /\ duplicates' # duplicates)
          => Running(units) = {} /\ Running(tasks) = {} /\ NextQueued(tasks) = {}
       /\ (pc = "hashing" /\ all_files' # all_files)
          => Running(tasks) = {} /\ NextQueued(tasks) = {}
      ]_vars

\* two units are in the pool at once: one has been drained into the record
\* list while another is still running
C21_Witness ==
    /\ pc = "collect"
    /\ all_files # <<>>
    /\ \E i, j \in 1..Len(units) :
           /\ units[i].status = "drained" /\ units[i].files # <<>>
           /\ units[j].status = "running"

\* C22 (as claimed): no duplicate group holds the same path twice.
C22_NoPathTwiceInAGroup ==
    \A k \in 1..Len(duplicates) :
        \A i, j \in 1..Len(duplicates[k]) :
            all_files[duplicates[k][i]].path = all_files[duplicates[k][j]].path
                => i = j

\* C22 witness: the only readable non-empty file under the root lies in the
\* subdirectory, and the finished scan returns a group made of its two
\* records.
C22_Witness ==
    /\ pc = "done"
    /\ NonEmptyFiles = {FileB}
    /\ \E k \in 1..Len(duplicates) :
           /\ Len(duplicates[k]) = 2
           /\ \A i \in 1..2 : all_files[duplicates[k][i]].path = FileB

(***************************************************************************)
(* FileInfo(path, size) built for one entry: a regular file or a symbolic  *)
(* link, with or without write permission, below a system directory or     *)
(* not, possibly gone or vanishing while it is examined.                   *)
(***************************************************************************)
ClassifyPaths == {SysFile, LibSysFile, UsrLibFile, HomeFile}

EntryChoices ==
    {<<Absent, Absent>>}
    \cup {<<RegularFile(n, 1, TRUE, w, sf, 1), Absent>> :
              n \in 0..MaxLen, w \in BOOLEAN, sf \in BOOLEAN}
    \cup {<<SymLink(TargetT, w, sf, 1), t>> :
              w \in BOOLEAN, sf \in BOOLEAN,
              t \in {Absent} \cup {RegularFile(1, 1, TRUE, tw, FALSE, 2) : tw \in BOOLEAN}}

ClassifyFileSystems ==
    {(p :> c[1]) @@ (Join(Dirname(p), TargetT) :> c[2]) :
        p \in ClassifyPaths, c \in EntryChoices}

InitFileInfo ==
    /\ fs \in ClassifyFileSystems
    /\ is_apple_silicon = FALSE
    /\ scan_type = "none"
    /\ min_size_bytes = 0
    /\ InitIdle
    /\ arg \in [path : ClassifyPaths \cap DOMAIN fs, size : 0..MaxLen]
    /\ info = NoInfo
    /\ directory = RootDir
    /\ result = NoResult

\* FileInfo(path, size)
Construct ==
    /\ scan_type = "none"
    /\ pc = "idle"
    /\ info' = FileInfo(fs, arg.path, arg.size)
    /\ pc' = "built"
    /\ UNCHANGED <<envVars, units, all_files, files_by_size, hashVars, duplicates,
                   progress_calls, should_stop, emitted, arg, result, current_thread,
                   current_tab, tables, message, deleted, scans>>

FileInfoNext == Construct

SpecFileInfo == InitFileInfo /\ [][FileInfoNext]_vars

\* the entry FileInfo was built for
Built == fs[arg.path]

\* C4: a FileInfo built for a broken symbolic link has is_removable = False,
\* whatever the mode of the link.
C4_BrokenLinkNotRemovable ==
    (pc = "built" /\ Built.kind = "link" /\ ~Exists(fs, Dest(fs, arg.path)))
        => ~info.is_removable

\* C4 witness: a FileInfo was built for a broken link whose own mode allows
\* writing, and it is not removable.
C4_Witness ==
    /\ pc = "built"
    /\ Built.kind = "link" /\ Built.writable /\ ~Built.statfail
    /\ ~Exists(fs, Dest(fs, arg.path))
    /\ info.file_type = "symlink"
    /\ ~info.is_removable

\* the paths below /System, /Library/System and /usr/lib
ReservedPaths == {SysFile, LibSysFile, UsrLibFile}

\* C5 (as claimed): a FileInfo built for a path below a reserved prefix has
\* is_removable = False, whatever the state of the entry.
C5_ReservedPathNotRemovable ==
    (pc = "built" /\ arg.path \in ReservedPaths) => ~info.is_removable

\* C5 witness: a FileInfo built for a path below /System whose entry no
\* longer exists keeps is_removable = True.
C5_Witness ==
    /\ pc = "built"
    /\ arg.path = SysFile
    /\ Built.kind = "absent"
    /\ info.is_removable

\* C6 (as claimed): when the entry's metadata cannot be read (it is gone, or
\* stat raises), the record built has is_removable = False, size 0 and
\* modified_time 0.
C6_MetadataFailureGivesSafeRecord ==
    (pc = "built" /\ (Built.kind = "absent" \/ Built.statfail))
        => /\ ~info.is_removable
           /\ info.size = 0
           /\ info.modified_time = 0

\* C6 witness: os.stat raised for an existing regular file, and the record
\* keeps is_removable = True and the size it was constructed with.
C6_Witness ==
    /\ pc = "built"
    /\ Built.kind = "file" /\ Built.statfail
    /\ arg.size > 0
    /\ info.is_removable
    /\ info.size = arg.size

\* C17: FileInfo(path, size) for a path that names nothing (not even a
\* broken link) is built, with the path and the size the caller gave.
C17_MissingPathKeepsArguments ==
    (pc = "built" /\ Built.kind = "absent")
        => (info.path = arg.path /\ info.size = arg.size)

\* C17 witness: a FileInfo was built with a size above 0 for a path that
\* names nothing, and has that size.
C17_Witness ==
    /\ pc = "built"
    /\ Built.kind = "absent"
    /\ arg.size > 0
    /\ info.size = arg.size
    /\ info.path = arg.path
    /\ info.file_type = "file"


(***************************************************************************)
(* M1OptimizedLargeFilesFinder                                             *)
(***************************************************************************)

\* self.excluded_dirs
ExcludedDirs ==
    {<<"/", "S", "y", "s", "t", "e", "m">>,
     <<"/", "L", "i", "b", "r", "a", "r", "y", "/", "D", "e", "v", "e", "l", "o", "p", "e", "r">>,
     <<"/", "u", "s", "r", "/", "l", "o", "c", "a", "l", "/", "C", "e", "l", "l", "a", "r">>,
     <<"/", ".", "S", "p", "o", "t", "l", "i", "g", "h", "t", "-", "V", "1", "0", "0">>,
     <<"/", ".", "f", "s", "e", "v", "e", "n", "t", "s", "d">>,
     <<"/", ".", "T", "r", "a", "s", "h", "e", "s">>,
     <<"/", ".", "g", "i", "t">>,
     <<"/", "n", "o", "d", "e", "_", "m", "o", "d", "u", "l", "e", "s">>,
     <<"_", "_", "p", "y", "c", "a", "c", "h", "e", "_", "_">>,
     <<".", "v", "e", "n", "v">>}

\* the fragments tested on Apple silicon only
AppleExcluded ==
    {<<"/", "S", "y", "s", "t", "e", "m", "/">>,
     <<"/", "L", "i", "b", "r", "a", "r", "y", "/", "D", "e", "v", "e", "l", "o", "p", "e", "r", "/">>,
     <<"/", "p", "r", "i", "v", "a", "t", "e", "/", "v", "a", "r", "/", "v", "m", "/">>,
     <<"c", "o", "m", ".", "a", "p", "p", "l", "e", ".">>,
     <<".", "S", "p", "o", "t", "l", "i", "g", "h", "t", "-", "V", "1", "0", "0">>,
     <<".", "f", "s", "e", "v", "e", "n", "t", "s", "d">>}

\* _should_skip_directory
ShouldSkipDirectory(apple, d) ==
    \/ apple /\ \E x \in AppleExcluded : Contains(d, x)
    \/ \E x \in ExcludedDirs : Contains(d, x)

\* min_size_mb * 1024 * 1024
MinSizeBytes(min_size_mb) == min_size_mb * 1024 * 1024

\* _scan_directory_worker(directory).  The branch for a directory that is
\* to be skipped only continues the loop: rglob has the whole tree already.
ScanDirectoryWorker(f, d, min) ==
    LET Large(q) == IsFile(f, q) /\ Stat(f, q).ok /\ Stat(f, q).st_size >= min
    IN  [i \in 1..Len(SelectSeq(RGlob(f, d), Large)) |->
            FileInfo(f, SelectSeq(RGlob(f, d), Large)[i],
                     Stat(f, SelectSeq(RGlob(f, d), Large)[i]).st_size)]

\* the immediate subdirectories iterdir() yields that become units
LargeUnitDirs(f, root, apple) ==
    {q \in IterDir(f, root) : IsDir(f, q) /\ ~ShouldSkipDirectory(apple, q)}

\* lines 559-582: list the root, submit one unit per directory
LargeStart ==
    /\ scan_type = "large"
    /\ pc = "idle"
    /\ \E order \in Orderings(LargeUnitDirs(fs, directory, is_apple_silicon)) :
           units' = Queued(Subdirs(fs, directory, order))
    /\ all_files' = <<>>
    /\ pc' = "collect"
    /\ UNCHANGED <<envVars, files_by_size, hashVars, duplicates, progress_calls,
                   should_stop, emitted, buildVars>>

\* A running unit ends: _scan_directory_worker returns its own list, and
\* lines 584-597 run for it: its files are added to all_large_files and the
\* callback runs.
LargeUnitDone ==
    /\ scan_type = "large"
    /\ pc = "collect"
    /\ \E i \in Running(units) :
           /\ units' = [units EXCEPT
                           ![i].status = "drained",
                           ![i].files = ScanDirectoryWorker(fs, units[i].dir,
                                                            min_size_bytes)]
           /\ all_files' = all_files \o units'[i].files
    /\ progress_calls' = Append(progress_calls, <<Len(all_files')>>)
    /\ emitted' = ProgressCallback(should_stop, emitted, Len(all_files'), 0)
    /\ UNCHANGED <<envVars, pc, files_by_size, hashVars, duplicates, should_stop,
                   buildVars>>

\* list.sort(key=lambda x: x.size, reverse=True): stable, largest first
RECURSIVE InsertBySize(_, _)
InsertBySize(sorted, rec) ==
    IF sorted = <<>> THEN <<rec>>
    ELSE IF Head(sorted).size >= rec.size
         THEN <<Head(sorted)>> \o InsertBySize(Tail(sorted), rec)
         ELSE <<rec>> \o sorted

RECURSIVE SortBySizeDesc(_)
SortBySizeDesc(files) ==
    IF files = <<>> THEN <<>>
    ELSE InsertBySize(SortBySizeDesc(SubSeq(files, 1, Len(files) - 1)),
                      files[Len(files)])

\* lines 599-605: the pool is shut down, the list is sorted and returned
LargeSort ==
    /\ scan_type = "large"
    /\ pc = "collect"
    /\ AllDrained(units)
    /\ all_files' = SortBySizeDesc(all_files)
    /\ pc' = "done"
    /\ UNCHANGED <<envVars, units, files_by_size, hashVars, duplicates,
                   progress_calls, should_stop, emitted, buildVars>>

(***************************************************************************)
(* The file systems a large-file search is run on: files just below, at    *)
(* and above the threshold, at the top level, in a subdirectory, in a .git *)
(* directory at the top level and in one a level further down, and one     *)
(* symbolic link at the top level.                                         *)
(***************************************************************************)
LargeSizes == {1024 * 1024 - 1, 1024 * 1024, 2 * 1024 * 1024}

LargeChoices(inode) ==
    {Absent} \cup {RegularFile(n, 1, TRUE, TRUE, FALSE, inode) : n \in LargeSizes}

LargeFileSystems ==
    {Mounted((FileA :> a) @@ (FileB :> b) @@ (FileC :> c) @@ (FileD :> d)
                 @@ (LinkL :> l)) :
        a \in LargeChoices(1), b \in LargeChoices(3), c \in LargeChoices(6),
        d \in LargeChoices(4), l \in LinkChoices(5)}

\* LargeFilesFinder(min_size_mb).find_large_files(root, callback)
InitLarge ==
    /\ fs \in LargeFileSystems
    /\ is_apple_silicon \in BOOLEAN
    /\ scan_type = "large"
    /\ min_size_bytes \in {MinSizeBytes(m) : m \in {1, 2}}
    /\ InitIdle
    /\ arg = NoArg
    /\ info = NoInfo
    /\ directory = RootDir
    /\ result = NoResult

LargeNext ==
    \/ LargeStart
    \/ UnitStart
    \/ LargeUnitDone
    \/ LargeSort

SpecLarge == InitLarge /\ [][LargeNext]_vars

\* C8 (as claimed): every record find_large_files returns has a size of at
\* least the threshold, and the list is in non-increasing order of size.
C8_LargeFilesAtLeastThreshold ==
    (scan_type = "large" /\ pc = "done") =>
        /\ \A i \in 1..Len(all_files) : all_files[i].size >= min_size_bytes
        /\ \A i \in 1..(Len(all_files) - 1) : all_files[i].size >= all_files[i + 1].size

\* C8 witness: the search returned a record for a symbolic link to a file
\* of at least the threshold, with the size of the link itself.
C8_Witness ==
    /\ scan_type = "large" /\ pc = "done"
    /\ \E i \in 1..Len(all_files) :
           /\ all_files[i].path = LinkL
           /\ all_files[i].file_type = "symlink"
           /\ Followed(fs, LinkL).size >= min_size_bytes
           /\ all_files[i].size < min_size_bytes

\* the directories of the tree that _should_skip_directory excludes
SkippedDirs == {d \in Dirs : ShouldSkipDirectory(is_apple_silicon, d)}

\* C9 (as claimed): no record find_large_files returns lies below a
\* directory whose path contains an excluded fragment.
C9_ExcludedDirsNotScanned ==
    (scan_type = "large" /\ pc = "done") =>
        \A i \in 1..Len(all_files) :
            \A d \in SkippedDirs : ~StartsWith(all_files[i].path, d \o <<"/">>)

\* C9 witness: the search returned a file that lies in the .git directory
\* of the root.
C9_Witness ==
    /\ scan_type = "large" /\ pc = "done"
    /\ GitDir \in SkippedDirs
    /\ \E i \in 1..Len(all_files) : all_files[i].path = FileD


\* C29 (as claimed): no path occurs twice in what find_large_files returns.
C29_LargeFileReturnedOnce ==
    (scan_type = "large" /\ pc = "done") =>
        \A i, j \in 1..Len(all_files) :
            all_files[i].path = all_files[j].path => i = j

\* C29 witness: the search returned two records for the file of at least
\* the threshold that lies in the immediate subdirectory of the root.
C29_Witness ==
    /\ scan_type = "large" /\ pc = "done"
    /\ fs[FileB].kind = "file" /\ fs[FileB].size >= min_size_bytes
    /\ Cardinality({i \in 1..Len(all_files) : all_files[i].path = FileB}) = 2

(***************************************************************************)
(* Scans called with any arguments: a root that is a directory, a regular  *)
(* file or nothing at all, and a size threshold of any sign.               *)
(***************************************************************************)
MissingDir == <<"/", "m">>

\* the values of the directory argument
Roots == {RootDir, MissingDir, FileA}

CallChoices(inode) ==
    {Absent} \cup {RegularFile(n, 1, TRUE, TRUE, FALSE, inode) : n \in 1..MaxLen}

CallFileSystems ==
    {Mounted((FileA :> a) @@ (FileB :> b) @@ (LinkL :> l)) :
        a \in CallChoices(1), b \in CallChoices(3), l \in LinkChoices(5)}

\* DuplicateFinder().scan_directory(directory, callback) or
\* LargeFilesFinder(min_size_mb).find_large_files(directory, callback)
InitCall ==
    /\ fs \in CallFileSystems
    /\ is_apple_silicon = FALSE
    /\ scan_type \in {"duplicates", "large"}
    /\ min_size_bytes \in IF scan_type = "large"
                          THEN {MinSizeBytes(m) : m \in {-1, 0}}
                          ELSE {0}
    /\ directory \in Roots
    /\ InitIdle
    /\ arg = NoArg
    /\ info = NoInfo
    /\ result = <<>>

\* Line 277, "return self.duplicates": the caller receives a reference to
\* the finder's own list, kept here with the groups (as paths) the list
\* held at that moment, and calls scan_directory again on the same finder
\* with any directory.
DupReturn ==
    /\ scan_type = "duplicates"
    /\ pc = "done"
    /\ result = <<>>
    /\ result' =
           <<[ref |-> "self.duplicates",
              groups |-> [k \in 1..Len(duplicates) |->
                            [i \in 1..Len(duplicates[k]) |->
                                all_files[duplicates[k][i]].path]]]>>
    /\ directory' \in Roots
    /\ pc' = "idle"
    /\ UNCHANGED <<fs, is_apple_silicon, scan_type, min_size_bytes, units, all_files,
                   files_by_size, hashVars, duplicates, progress_calls, should_stop,
                   emitted, arg, info, current_thread, current_tab, tables, message,
                   deleted, scans>>

CallNext ==
    \/ DupNext
    \/ DupReturn
    \/ LargeStart
    \/ LargeUnitDone
    \/ LargeSort

SpecCall == InitCall /\ [][CallNext]_vars

\* the directory argument names no directory
BadRoot == ~IsDir(fs, directory)

\* C11 (as claimed): when the root does not exist or is not a directory, the
\* scan fails before a worker task is submitted: no unit is ever queued and
\* the scan never gets past its start.
C11_BadRootFailsBeforeSubmit ==
    BadRoot => (units = <<>> /\ pc = "idle")

\* C11 witness: a duplicate scan of a root that is no directory has returned
\* normally after its one unit, for the root itself, ran in the pool.
C11_Witness ==
    /\ BadRoot
    /\ scan_type = "duplicates"
    /\ pc = "done"
    /\ Len(units) = 1
    /\ units[1].dir = directory
    /\ units[1].status = "drained"
    /\ duplicates = <<>>

\* C12 (as claimed): with a negative threshold the large-file finder runs no
\* traversal and returns no list.
C12_NegativeThresholdRejected ==
    (scan_type = "large" /\ min_size_bytes < 0) => (pc = "idle" /\ units = <<>>)

\* C12 witness: a search with a negative threshold has returned a list, with
\* every regular file under the root in it.
C12_Witness ==
    /\ scan_type = "large" /\ min_size_bytes < 0
    /\ pc = "done"
    /\ all_files # <<>>
    /\ \A p \in {FileA, FileB} :
           IsFile(fs, p) => \E i \in 1..Len(all_files) : all_files[i].path = p


\* C23 (as claimed): the list a call of scan_directory returned holds, at
\* any later moment and through a later call on the same finder, the groups
\* it held when it was returned.
C23_EarlierResultKeepsItsGroups ==
    (Len(result) = 1 /\ result[1].ref = "self.duplicates") =>
        result[1].groups =
            [k \in 1..Len(duplicates) |->
                [i \in 1..Len(duplicates[k]) |-> all_files[duplicates[k][i]].path]]

\* C23 witness: a first call returned one group, a second call on the same
\* finder, for a directory that does not exist, has ended, and the list the
\* first call returned is empty.
C23_Witness ==
    /\ Len(result) = 1
    /\ result[1].ref = "self.duplicates"
    /\ Len(result[1].groups) = 1
    /\ directory = MissingDir
    /\ pc = "done"
    /\ duplicates = <<>>

(***************************************************************************)
(* Duplicate scans that meet failures: regular files that cannot be read   *)
(* (open() or a read raises OSError) and a subdirectory that cannot be     *)
(* listed.                                                                 *)
(***************************************************************************)
FaultyChoices(inode) ==
    {Absent}
    \cup {RegularFile(n, b, TRUE, TRUE, FALSE, inode) : n \in 1..MaxLen, b \in Fills}
    \cup {RegularFile(n, 1, FALSE, TRUE, FALSE, inode) : n \in 1..MaxLen}

\* FileE is a file of its own or a hard link to FileA: the same inode, and
\* so the same content and mode
FaultyFileSystems ==
    UNION {{(FileA :> a) @@ (FileE :> e) @@ (FileB :> b) @@ (SubDir :> Directory(l, TRUE)) :
               e \in FaultyChoices(2) \cup {a},
               b \in {Absent, RegularFile(1, 1, TRUE, TRUE, FALSE, 3)}, l \in BOOLEAN} :
           a \in FaultyChoices(1)}

InitFaults ==
    /\ fs \in FaultyFileSystems
    /\ is_apple_silicon = FALSE
    /\ scan_type = "duplicates"
    /\ min_size_bytes = 0
    /\ directory = RootDir
    /\ InitIdle
    /\ arg = NoArg
    /\ info = NoInfo
    /\ result = NoResult

FaultsNext == DupNext

SpecFaults == InitFaults /\ [][FaultsNext]_vars

\* C13: a failure never aborts the rest of the scan.  A unit whose directory
\* cannot be listed returns and every file the other units can reach has
\* its record; a finished hash task of a file that cannot be read has the
\* result "" and no entry in the batch's results, every other finished task
\* has the digest of its file there; after the scan each record of a
\* candidate group has a digest exactly when its file can be read; and,
\* short of the end, the scan always has a next step.
C13_FailuresDoNotAbortSiblings ==
    /\ pc \notin {"idle", "collect"} =>
           /\ AllDrained(units)
           /\ \A p \in NonEmptyFiles :
                  Reachable(fs, directory, p) => RecordsOf(p) # {}
    /\ pc = "hashing" =>
           \A i \in 1..Len(tasks) :
               tasks[i].status = "drained" =>
                   IF Followed(fs, tasks[i].path).readable
                   THEN /\ tasks[i].result = WholeDigest(Followed(fs, tasks[i].path))
                        /\ tasks[i].path \in DOMAIN hash_results
                        /\ hash_results[tasks[i].path] = tasks[i].result
                   ELSE /\ tasks[i].result = <<>>
                        /\ tasks[i].path \notin DOMAIN hash_results
    /\ pc = "done" =>
           \A g \in 1..Len(candidate_groups) :
               \A i \in Range(candidate_groups[g]) :
                   HasDigest(all_files[i]) <=> Followed(fs, all_files[i].path).readable
    /\ pc # "done" => ENABLED DupNext

\* C13 witness: the scan returned although the subdirectory could not be
\* listed and one of two same-size files could not be read; the file that
\* could be read has its digest, the other has none.
C13_Witness ==
    /\ pc = "done"
    /\ ~Listable(fs, SubDir)
    /\ FileB \in NonEmptyFiles
    /\ FileA \in NonEmptyFiles /\ ~fs[FileA].readable
    /\ FileE \in NonEmptyFiles /\ fs[FileE].readable
    /\ \E i \in RecordsOf(FileA) : all_files[i].hash_md5 = {}
    /\ \E i \in RecordsOf(FileE) : all_files[i].hash_md5 = {WholeDigest(fs[FileE])}

\* FileInfo identity used as the key of hash_cache
GetFileSignature(rec) == <<rec.size, rec.modified_time, rec.inode>>

\* the record a hash task of the current batch was submitted for
TaskRecord(i) == all_files[candidate_groups[gi][i]]

\* C18 (as claimed): no two hash computations of a scan are started for
\* records with the same (size, modified_time, inode) identity.
C18_IdentityHashedOnce ==
    pc = "hashing" =>
        \A i, j \in 1..Len(tasks) :
            (i # j /\ tasks[i].status # "queued" /\ tasks[j].status # "queued")
                => GetFileSignature(TaskRecord(i)) # GetFileSignature(TaskRecord(j))

\* C18 witness: FileE is a hard link to FileA, and both have been read and
\* hashed in the same batch.
C18_Witness ==
    /\ pc = "hashing"
    /\ fs[FileA].kind = "file" /\ fs[FileE] = fs[FileA]
    /\ \E i, j \in 1..Len(tasks) :
           /\ tasks[i].path = FileA /\ tasks[j].path = FileE
           /\ tasks[i].status = "drained" /\ tasks[j].status = "drained"
           /\ tasks[i].result # <<>> /\ tasks[j].result # <<>>
           /\ GetFileSignature(TaskRecord(i)) = GetFileSignature(TaskRecord(j))


(***************************************************************************)
(* safe_delete_file (utils/helpers.py), called for a regular file, a       *)
(* symbolic link, a directory or a path that names nothing, in a directory *)
(* that does or does not allow entries to be removed.                      *)
(***************************************************************************)
\* the permission to remove entries from directory d
DirWritable(f, d) == Entry(f, d).kind # "dir" \/ Entry(f, d).writable

\* os.unlink / os.remove raise OSError for a directory, for an entry that is
\* gone by the time of the call, and in a directory that is not writable
UnlinkRaises(f, p) ==
    \/ p \in Dirs
    \/ ~Present(f, p)
    \/ Entry(f, p).statfail
    \/ ~DirWritable(f, Dirname(p))

\* the file system after os.unlink(p) returned: the entry itself is gone,
\* a link's target stays
Unlink(f, p) == [f EXCEPT ![p] = Absent]

\* safe_delete_file_optimized without its except clause
SafeDeleteFileUncaught(f, p) ==
    IF Exists(f, p)
    THEN IF UnlinkRaises(f, p) THEN "raised" ELSE "True"
    ELSE "False"

\* what safe_delete_file_optimized(file_path) returns
SafeDeleteFile(f, p) ==
    IF Exists(f, p)
    THEN IF UnlinkRaises(f, p) THEN "False" ELSE "True"
    ELSE "False"

\* the file system safe_delete_file_optimized(file_path) leaves
AfterSafeDelete(f, p) ==
    IF Exists(f, p) /\ ~UnlinkRaises(f, p) THEN Unlink(f, p) ELSE f

\* safe_delete_file(file_path)
SafeDelete ==
    /\ scan_type = "delete"
    /\ result = NoResult
    /\ result' = SafeDeleteFile(fs, arg.path)
    /\ fs' = AfterSafeDelete(fs, arg.path)
    /\ UNCHANGED <<is_apple_silicon, scan_type, min_size_bytes, directory, pc, units,
                   all_files, files_by_size, hashVars, duplicates, progress_calls,
                   should_stop, emitted, arg, info, current_thread, current_tab,
                   tables, message, deleted, scans>>

\* the longest file_paths list given to safe_delete_files_batch
MaxBatch == 2

\* safe_delete_files_batch(file_paths), lines 52-61: one deletion is
\* submitted per element of the list
BatchSubmit ==
    /\ scan_type = "delete_batch"
    /\ pc = "idle"
    /\ \E n \in 1..MaxBatch :
           \E file_paths \in [1..n -> {FileA, LinkL, MissingDir}] :
               tasks' = [i \in 1..n |->
                            [path |-> file_paths[i], status |-> "queued",
                             result |-> "none"]]
    /\ hash_results' = EmptyDict
    /\ pc' = "deleting"
    /\ UNCHANGED <<envVars, units, all_files, files_by_size, candidate_groups, gi,
                   processed, total_candidates, duplicates, progress_calls,
                   should_stop, emitted, buildVars>>

\* A running deletion ends: safe_delete_file_optimized returns, and lines
\* 63-69 run for it: results[path] = success.  After the last one the
\* "with" block is left and results is returned.
BatchDone ==
    /\ pc = "deleting"
    /\ \E i \in Running(tasks) :
           /\ tasks' = [tasks EXCEPT ![i].status = "drained",
                                     ![i].result = SafeDeleteFile(fs, tasks[i].path)]
           /\ fs' = AfterSafeDelete(fs, tasks[i].path)
           /\ hash_results' = DictSet(hash_results, tasks[i].path, tasks'[i].result)
    /\ pc' = IF AllDrained(tasks') THEN "done" ELSE pc
    /\ UNCHANGED <<is_apple_silicon, scan_type, min_size_bytes, directory, units,
                   all_files, files_by_size, candidate_groups, gi, processed,
                   total_candidates, duplicates, progress_calls, should_stop, emitted,
                   buildVars>>

DeletePaths == {FileA, LinkL, SubDir, MissingDir}

DeleteFileChoices ==
    {Absent}
    \cup {RegularFile(n, 1, TRUE, w, sf, 1) : n \in 0..MaxLen, w \in BOOLEAN, sf \in BOOLEAN}

DeleteLinkChoices ==
    {Absent}
    \cup {SymLink(t, TRUE, sf, 5) : t \in {TargetA, TargetSub, TargetGone}, sf \in BOOLEAN}

DeleteFileSystems ==
    {(FileA :> a) @@ (LinkL :> l) @@ (RootDir :> Directory(TRUE, w)) :
        a \in DeleteFileChoices, l \in DeleteLinkChoices, w \in BOOLEAN}

InitDelete ==
    /\ fs \in DeleteFileSystems
    /\ is_apple_silicon \in BOOLEAN
    /\ scan_type \in {"delete", "delete_batch"}
    /\ min_size_bytes = 0
    /\ directory = RootDir
    /\ InitIdle
    /\ arg \in IF scan_type = "delete"
               THEN [path : DeletePaths, size : {0}]
               ELSE {NoArg}
    /\ info = NoInfo
    /\ result = NoResult

DeleteNext ==
    \/ SafeDelete
    \/ BatchSubmit
    \/ HashStart
    \/ BatchDone

SpecDelete == InitDelete /\ [][DeleteNext]_vars

\* C16: a call of safe_delete_file returns True or False, never raises;
\* True only when the path existed before and does not exist after; and
\* when the path did not exist or could not be removed, False with the file
\* system as it was.
C16_SafeDeleteNeverRaises ==
    [][result' # result =>
         /\ result' \in {"True", "False"}
         /\ result' = "True" => (Exists(fs, arg.path) /\ ~Exists(fs', arg.path))
         /\ result' = "False" => fs' = fs
         /\ (~Exists(fs, arg.path) \/ UnlinkRaises(fs, arg.path)) =>
                (result' = "False" /\ fs' = fs)]_vars

\* C16 witness: safe_delete_file returned True for a regular file, which is
\* gone, and the link that pointed to it is now broken.
C16_Witness ==
    /\ result = "True"
    /\ arg.path = FileA
    /\ ~Exists(fs, FileA)
    /\ IsLink(fs, LinkL) /\ Dest(fs, LinkL) = FileA

\* C27 (as claimed): safe_delete_files_batch returns one entry per distinct
\* input path, and the entry is True exactly when one of the batch's
\* deletions removed that file.
C27_BatchEntryTrueIffRemoved ==
    (scan_type = "delete_batch" /\ pc = "done") =>
        /\ DOMAIN hash_results = {tasks[i].path : i \in 1..Len(tasks)}
        /\ \A p \in DOMAIN hash_results :
               hash_results[p] = "True"
                   <=> \E i \in 1..Len(tasks) :
                           tasks[i].path = p /\ tasks[i].result = "True"

\* C27 witness: the list named the same regular file twice, the first
\* deletion removed it, and the entry returned for it is False.
C27_Witness ==
    /\ scan_type = "delete_batch" /\ pc = "done"
    /\ Len(tasks) = 2
    /\ tasks[1].path = FileA /\ tasks[2].path = FileA
    /\ tasks[1].result = "True"
    /\ ~Exists(fs, FileA)
    /\ hash_results[FileA] = "False"


(***************************************************************************)
(* The main window (gui/main_window.py): the scan thread that start_scan   *)
(* creates, the slots of its signals, the tabs and their tables, the       *)
(* deletion of the selected records and the closing of the window.  The    *)
(* finder a ScanWorker runs is modelled above; here its result is the list *)
(* of records of the regular files present, or an exception.  A progress   *)
(* callback is two steps of the scan thread, the test of should_stop and   *)
(* the emission, so that the GUI thread can run between them.              *)
(***************************************************************************)
\* the scans start_scan may start in one run of the application
MaxScans == 2

\* the progress callbacks one scan makes
MaxCallbacks == 1

\* the highest index of a tab the user selects
MaxTab == 1

\* QThread.isRunning() with every thread reported as stopped
IsRunningNever(thread) == thread \in {}

\* self.current_thread and self.current_thread.isRunning()
IsRunning(thread) == thread \in {"running", "quitting"}

\* start_scan(scan_type, parameters), called by the scan button of the
\* current tab or by refresh_current_tab: scan_duplicates, scan_cache,
\* scan_orphans or scan_large_files by the index of the tab
StartScan ==
    IF IsRunning(current_thread)
    THEN /\ message' = "Un scan est deja en cours."
         /\ UNCHANGED <<scan_type, should_stop, pc, current_thread, progress_calls,
                        emitted, scans>>
    ELSE /\ scan_type' = <<"duplicates", "cache", "orphans", "large">>[current_tab + 1]
         /\ should_stop' = FALSE
         /\ current_thread' = "running"
         /\ pc' = "run"
         /\ progress_calls' = <<>>
         /\ emitted' = <<>>
         /\ message' = "Scan en cours"
         /\ scans' = scans + 1

\* ScanWorker._progress_callback and its siblings, called by the finder on
\* the scan thread: "if not self.should_stop" and then "self.progress.emit"
ProgressStep ==
    /\ \/ /\ pc = "run"
          /\ Len(progress_calls) < MaxCallbacks
          /\ progress_calls' = Append(progress_calls, <<Len(progress_calls) + 1, 0>>)
          /\ pc' = IF ~should_stop THEN "emit" ELSE "run"
          /\ UNCHANGED emitted
       \/ /\ pc = "emit"
          /\ emitted' = Append(emitted, progress_calls[Len(progress_calls)])
          /\ pc' = "run"
          /\ UNCHANGED progress_calls
    /\ UNCHANGED <<envVars, units, all_files, files_by_size, hashVars, duplicates,
                   should_stop, buildVars>>

\* ScanWorker.run comes to its end: finished is emitted with the results,
\* or the finder raised and error is emitted
RunEnd ==
    /\ pc = "run"
    /\ \/ /\ pc' = "finished"
          /\ result' = FileInfos(fs, <<FileA, FileE>>)
       \/ /\ pc' = "error"
          /\ UNCHANGED result
    /\ UNCHANGED <<envVars, units, all_files, files_by_size, hashVars, duplicates,
                   progress_calls, should_stop, emitted, arg, info, current_thread,
                   current_tab, tables, message, deleted, scans>>

\* The slots of the finished signal, run by the GUI thread in the order
\* they were connected: scan_finished, then current_thread.quit.
ScanFinished ==
    /\ message # "closed"
    /\ pc = "finished"
    /\ tables' = [tables EXCEPT ![current_tab] =
                                    [scan |-> scan_type, files |-> result]]
    /\ message' = "Scan termine"
    /\ current_thread' = IF current_thread = "running" THEN "quitting"
                         ELSE current_thread
    /\ pc' = "done"
    /\ UNCHANGED <<envVars, units, all_files, files_by_size, hashVars, duplicates,
                   progress_calls, should_stop, emitted, arg, info, result,
                   current_tab, deleted, scans>>

\* scan_error, the one slot of the error signal
ScanError ==
    /\ message # "closed"
    /\ pc = "error"
    /\ message' = "Erreur de scan"
    /\ pc' = "done"
    /\ UNCHANGED <<envVars, units, all_files, files_by_size, hashVars, duplicates,
                   progress_calls, should_stop, emitted, arg, info, result,
                   current_thread, current_tab, tables, deleted, scans>>

\* The thread's event loop, told to quit, returns once run() has returned,
\* and the thread is over.
ThreadExit ==
    /\ current_thread = "quitting"
    /\ pc \notin {"run", "emit"}
    /\ current_thread' = "finished"
    /\ UNCHANGED <<envVars, pc, units, all_files, files_by_size, hashVars, duplicates,
                   progress_calls, should_stop, emitted, arg, info, result,
                   current_tab, tables, message, deleted, scans>>

\* closeEvent: the worker is told to stop, the thread to quit, and the GUI
\* thread waits for the thread and handles no further event
CloseEvent ==
    /\ message # "closed"
    /\ should_stop' = (scan_type # "none" \/ should_stop)
    /\ current_thread' = IF IsRunning(current_thread) THEN "quitting"
                         ELSE current_thread
    /\ message' = "closed"
    /\ UNCHANGED <<envVars, pc, units, all_files, files_by_size, hashVars, duplicates,
                   progress_calls, emitted, arg, info, result, current_tab, tables,
                   deleted, scans>>

\* the user selects another tab
SelectTab ==
    /\ message # "closed"
    /\ \E t \in 0..3 : t <= MaxTab /\ t # current_tab /\ current_tab' = t
    /\ UNCHANGED <<envVars, pc, units, all_files, files_by_size, hashVars, duplicates,
                   progress_calls, should_stop, emitted, arg, info, result,
                   current_thread, tables, message, deleted, scans>>

\* delete_selected_files with line 898 left out: the selection is kept as
\* it was after the first dialog
FilesToDeleteUnfiltered(selected_files) == selected_files

\* lines 879-898: selected_files after the first dialog was answered Yes
\* or was not shown
FilesToDelete(selected_files) ==
    LET Removable(rec) == rec.is_removable IN SelectSeq(selected_files, Removable)

\* lines 917-919: the file system after safe_delete_file was called for
\* each record in turn
RECURSIVE DeleteAll(_, _)
DeleteAll(f, files) ==
    IF files = <<>> THEN f
    ELSE DeleteAll(AfterSafeDelete(f, files[1].path), Tail(files))

\* delete_selected_files(table), called by the delete button of the
\* current tab, with the rows the user checked and the answers given to
\* the two dialogs; it ends with refresh_current_tab()
DeleteSelected ==
    /\ message # "closed"
    /\ \E rows \in SUBSET (1..Len(tables[current_tab].files)),
          protected_reply \in {"Yes", "No"}, reply \in {"Yes", "No"} :
           LET InRows(rec) ==
                   \E r \in rows : tables[current_tab].files[r] = rec
               selected_files == SelectSeq(tables[current_tab].files, InRows)
               chosen == FilesToDelete(selected_files)
           IN  IF selected_files = <<>>
               THEN /\ deleted' = [reply |-> "", files |-> <<>>]
                    /\ UNCHANGED <<fs, scan_type, should_stop, pc, current_thread,
                                   progress_calls, emitted, scans, message>>
               ELSE IF chosen # selected_files /\ protected_reply = "No"
               THEN /\ deleted' = [reply |-> "", files |-> <<>>]
                    /\ UNCHANGED <<fs, scan_type, should_stop, pc, current_thread,
                                   progress_calls, emitted, scans, message>>
               ELSE IF chosen = <<>>
               THEN /\ deleted' = [reply |-> "", files |-> <<>>]
                    /\ UNCHANGED <<fs, scan_type, should_stop, pc, current_thread,
                                   progress_calls, emitted, scans, message>>
               ELSE IF reply = "No"
               THEN /\ deleted' = [reply |-> "No", files |-> <<>>]
                    /\ UNCHANGED <<fs, scan_type, should_stop, pc, current_thread,
                                   progress_calls, emitted, scans, message>>
               ELSE /\ scans < MaxScans \/ IsRunning(current_thread)
                    /\ deleted' = [reply |-> "Yes", files |-> chosen]
                    /\ fs' = DeleteAll(fs, chosen)
                    /\ StartScan
    /\ UNCHANGED <<is_apple_silicon, min_size_bytes, directory, units, all_files,
                   files_by_size, hashVars, duplicates, arg, info, result,
                   current_tab, tables>>

\* the application window after construction, over a directory with one
\* file that may be read-only and one that can be written
InitGui ==
    /\ fs \in {(RootDir :> Directory(TRUE, TRUE))
                  @@ (FileA :> RegularFile(1, 1, TRUE, w, FALSE, 1))
                  @@ (FileE :> RegularFile(1, 1, TRUE, TRUE, FALSE, 2)) :
                  w \in BOOLEAN}
    /\ is_apple_silicon = FALSE
    /\ scan_type = "none"
    /\ min_size_bytes = 0
    /\ directory = RootDir
    /\ InitIdle
    /\ arg = NoArg
    /\ info = NoInfo
    /\ result = <<>>

GuiNext ==
    \/ /\ message # "closed"
       /\ scans < MaxScans \/ IsRunning(current_thread)
       /\ StartScan
       /\ UNCHANGED <<fs, is_apple_silicon, min_size_bytes, directory, units,
                      all_files, files_by_size, hashVars, duplicates, arg, info,
                      result, current_tab, tables, deleted>>
    \/ ProgressStep
    \/ RunEnd
    \/ ScanFinished
    \/ ScanError
    \/ ThreadExit
    \/ CloseEvent
    \/ SelectTab
    \/ DeleteSelected

SpecGui == InitGui /\ [][GuiNext]_vars

\* C24: delete_selected_files gives safe_delete_file only records whose
\* is_removable is True, whatever is selected and answered, and no file is
\* deleted and no record handed over unless the final confirmation was
\* answered Yes; the files that go are those of the records handed over.
C24_OnlyRemovableRecordsDeleted ==
    [][/\ \A i \in 1..Len(deleted'.files) : deleted'.files[i].is_removable
       /\ (fs' # fs \/ deleted'.files # <<>>) => deleted'.reply = "Yes"
       /\ \A p \in DOMAIN fs :
              fs'[p] # fs[p] =>
                  \E i \in 1..Len(deleted'.files) : deleted'.files[i].path = p
      ]_vars

\* C24 witness: the table held a read-only file and a writable one; after
\* the final Yes the writable one is gone and the read-only one is there.
C24_Witness ==
    /\ deleted.reply = "Yes"
    /\ Len(deleted.files) = 1
    /\ deleted.files[1].path = FileE
    /\ ~Exists(fs, FileE)
    /\ Exists(fs, FileA) /\ ~fs[FileA].writable

\* C25 (as claimed): once the slot of a scan's finished or error signal has
\* run, the scan's thread has been told to quit or is over, so that
\* start_scan is accepted again.
C25_EndedScanFreesTheThread ==
    pc = "done" => current_thread \in {"quitting", "finished"}

\* C25 witness: a scan ended with the error signal, its thread is still
\* running, and a later start_scan was refused.
C25_Witness ==
    /\ pc = "done"
    /\ current_thread = "running"
    /\ message = "Un scan est deja en cours."

\* C26 (as claimed): a table holds only results of the scan type of its own
\* tab.
C26_ResultsGoToTheirOwnTable ==
    \A t \in 0..3 :
        tables[t].scan # "" =>
            tables[t].scan = <<"duplicates", "cache", "orphans", "large">>[t + 1]

\* C26 witness: the results of a duplicates scan are in the cache table and
\* the duplicates table is empty.
C26_Witness ==
    /\ tables[1].scan = "duplicates"
    /\ tables[0].scan = ""

\* C28 (as claimed): while should_stop is set, that is once stop() has
\* returned, no progress signal is emitted.
C28_NoProgressAfterStop ==
    [][should_stop => emitted' = emitted]_vars

\* C28 witness: stop() has returned and the scan thread is between the test
\* of should_stop and the emission that follows it.
C28_Witness ==
    /\ should_stop
    /\ pc = "emit"

\* C30: a scan thread is started only when the current thread is not
\* running, and a start_scan issued while it is running (the step that
\* shows its warning) changes neither the worker nor the thread and starts
\* nothing.
C30_AtMostOneScanThread ==
    [][/\ scans' # scans => current_thread \notin {"running", "quitting"}
       /\ (current_thread \in {"running", "quitting"}
              /\ message' # message
              /\ message' = "Un scan est deja en cours.")
          => UNCHANGED <<scan_type, should_stop, pc, current_thread, scans,
                         progress_calls, emitted>>
      ]_vars

\* C30 witness: start_scan was refused while the one scan thread started so
\* far is running its scan.
C30_Witness ==
    /\ current_thread = "running"
    /\ pc = "run"
    /\ scans = 1
    /\ message = "Un scan est deja en cours."

=============================================================================
